---- MODULE Spec2Model ----
(***************************************************************************)
(* Model of rmnd_lca: the REMIND data store (data_collection.py,           *)
(* RemindDataCollection) and the electricity-market reconstruction         *)
(* (electricity.py, Electricity).                                          *)
(*                                                                         *)
(* SpecData applies the year-resolved queries of RemindDataCollection to   *)
(* bounded stores.  Floating-point values are modelled as exact rationals  *)
(* [num, den]; a zero denominator is numpy's NaN (0/0), which every        *)
(* arithmetic operation propagates.                                        *)
(* SpecGeo applies the region lookups of Electricity to bounded region     *)
(* tables, SpecClear applies delete_electricity_inputs_from_market to      *)
(* bounded exchange lists.                                                 *)
(***************************************************************************)
EXTENDS Integers, Sequences, FiniteSets, TLC

VARIABLES
    data,       \* RemindDataCollection.data : the raw values, one per (variable, region, year)
    year,       \* RemindDataCollection.year : the requested year
    call,       \* the function last applied, with its arguments
    ret,        \* what that call returned or raised
    l,          \* get_REMIND_geomatcher: the rows (ISO, region) of regionmappingH12.csv
    topology,   \* the location codes the geomatcher defines before REMIND is added
    db,         \* Electricity.db : the inventory, a list of datasets
    rmd,        \* Electricity.rmd : the scenario object handed to the constructor
    pc,         \* update_electricity_markets: the statement to execute next
    ds,         \* update_electricity_markets: the position in db of the dataset at hand
    remind_locations,   \* add_new_datasets_to_electricity_market: local
    mix,                \* add_new_datasets_to_electricity_market: local
    i,                  \* add_new_datasets_to_electricity_market: position in the variables
    datasets,           \* add_new_datasets_to_electricity_market: local
    calls,      \* the supplier searches made so far, in order
    visited     \* the positions in db of the markets cleared so far, in order

dataVars == <<data, year>>

geoVars == <<l, topology>>

\* the locals of update_electricity_markets and add_new_datasets_to_electricity_market
runVars == <<rmd, pc, ds, remind_locations, mix, i, datasets, calls, visited>>

vars == <<data, year, call, ret, l, topology, db, rmd, pc, ds, remind_locations,
          mix, i, datasets, calls, visited>>

-----------------------------------------------------------------------------
(* Bounds *)

\* The raw values of one store sum to at most MaxTotal.
MaxTotal == 3

-----------------------------------------------------------------------------
(* The store: labels, regions, years *)

\* remind_electricity_markets.csv: technology name -> REMIND variable
electricity_market_labels ==
    ("Coal PC" :> "SE|Electricity|Coal") @@ ("Wind" :> "SE|Electricity|Wind")
        @@ ("Hydrogen" :> "SE|Electricity|Hydrogen")

\* remind_electricity_efficiencies.csv: technology name -> REMIND variable
electricity_efficiency_labels ==
    ("Coal PC" :> "Tech|Electricity|Coal|Efficiency")

\* dict.values()
Values(dict) == {dict[k] : k \in DOMAIN dict}

\* {v: k for k, v in dict.items()}
Reversed(dict) ==
    [v \in Values(dict) |-> CHOOSE k \in DOMAIN dict : dict[k] = v]

\* 'Hydrogen' in l, on the labels above
ContainsHydrogen(lab) == lab \in {"SE|Electricity|Hydrogen"}

\* coords of the array built by get_remind_data: variable, region, year
MarketVariables ==
    <<"SE|Electricity|Coal", "SE|Electricity|Wind", "SE|Electricity|Hydrogen">>

EfficiencyVariables == <<"Tech|Electricity|Coal|Efficiency">>

Variables == MarketVariables \o EfficiencyVariables

RegionCoords == <<"EUR", "USA">>

Regions == {RegionCoords[k] : k \in 1..Len(RegionCoords)}

\* data.coords['year']: the stored years, strictly increasing
StoredYears == <<2005, 2007, 2010>>

YearSet == {StoredYears[k] : k \in 1..Len(StoredYears)}

\* data.year.values.min() / .max()
YearMin == StoredYears[1]

YearMax == StoredYears[Len(StoredYears)]

\* the years a caller may construct the collection with
RequestYears == (YearMin - 1)..(YearMax + 1)

\* the position of label x on a coordinate axis
Pos(axis, x) == CHOOSE k \in 1..Len(axis) : axis[k] = x

\* the number of cells that hold the rows of n variables
NumCells(n) == n * Len(RegionCoords) * Len(StoredYears)

\* self.data.loc[v, r, y]: label-based lookup in the flat array d
Raw(d, v, r, y) ==
    d[((Pos(Variables, v) - 1) * Len(RegionCoords) + (Pos(RegionCoords, r) - 1))
          * Len(StoredYears) + Pos(StoredYears, y)]

\* every array of n cells whose values sum to at most b
RECURSIVE Stores(_, _)
Stores(n, b) ==
    IF n = 0 THEN {<<>>}
    ELSE UNION {{Append(f, v) : f \in Stores(n - 1, b - v)} : v \in 0..b}

Zeros(n) == [k \in 1..n |-> 0]

\* The stores the queries are applied to.  A query reads only the rows of its own
\* labels, so the rows of one label family vary while the other family's are zero.
BoundedStores ==
    {m \o Zeros(NumCells(Len(EfficiencyVariables))) :
        m \in Stores(NumCells(Len(MarketVariables)), MaxTotal)}
    \cup
    {Zeros(NumCells(Len(MarketVariables))) \o e :
        e \in Stores(NumCells(Len(EfficiencyVariables)), MaxTotal)}

-----------------------------------------------------------------------------
(* Rational arithmetic standing for the float arithmetic of numpy *)

Rat(n, d) == [num |-> n, den |-> d]

IsNaN(q) == q.den = 0

RatAdd(p, q) == Rat(p.num * q.den + q.num * p.den, p.den * q.den)

RatSub(p, q) == Rat(p.num * q.den - q.num * p.den, p.den * q.den)

\* q * n / d for integers n and d > 0
RatScale(q, n, d) == Rat(q.num * n, q.den * d)

RatEq(p, q) == ~IsNaN(p) /\ ~IsNaN(q) /\ p.num * q.den = q.num * p.den

RECURSIVE SumOver(_, _)
SumOver(S, f) ==
    IF S = {} THEN 0
    ELSE LET x == CHOOSE e \in S : TRUE IN f[x] + SumOver(S \ {x}, f)

RECURSIVE RatSumOver(_, _)
RatSumOver(S, f) ==
    IF S = {} THEN Rat(0, 1)
    ELSE LET x == CHOOSE e \in S : TRUE IN RatAdd(f[x], RatSumOver(S \ {x}, f))

-----------------------------------------------------------------------------
(* get_remind_electricity_markets / get_remind_electricity_efficiencies *)

\* the outcome of a call: the value returned, or the exception raised
Return(v) == [exc |-> "none", value |-> v]

Raise(e) == [exc |-> e, value |-> <<>>]

\* list_technologies of get_remind_electricity_markets
list_technologies(drop_hydrogen) ==
    IF drop_hydrogen
    THEN {lab \in Values(electricity_market_labels) : ~ContainsHydrogen(lab)}
    ELSE Values(electricity_market_labels)

\* list_technologies of get_remind_electricity_efficiencies
list_efficiencies(drop_hydrogen) ==
    IF drop_hydrogen
    THEN {lab \in Values(electricity_efficiency_labels) : ~ContainsHydrogen(lab)}
    ELSE Values(electricity_efficiency_labels)

\* mutant of YearBelowMin: the lower limit itself is rejected
YearBelowMin_Inclusive(y) == y <= YearMin

\* self.year < self.data.year.values.min() or self.year > self.data.year.values.max()
YearBelowMin(y) == y < YearMin

YearAboveMax(y) == y > YearMax

OutOfRange(y) == YearBelowMin(y) \/ YearAboveMax(y)

\* self.year in self.data.coords['year']
IsStoredYear(y) == y \in YearSet

\* mutant of RegionTotal: the grouping by region is lost, the total runs over all regions
RegionTotal_AllRegions(d, L, r, y) ==
    SumOver(L \X Regions, [c \in L \X Regions |-> Raw(d, c[1], c[2], y)])

\* .groupby('region').sum(axis=0): the total of the listed variables of region r at y
RegionTotal(d, L, r, y) == SumOver(L, [t \in L |-> Raw(d, t, r, y)])

\* self.data.loc[list_technologies,:,y] / ....groupby('region').sum(axis=0)
Normalized(d, L, y) ==
    [c \in L \X Regions |-> Rat(Raw(d, c[1], c[2], y), RegionTotal(d, L, c[2], y))]

\* mutant of UpperIndex: the search takes the first stored year above y, so a
\* stored year is bracketed with the year after it
UpperIndex_Right(y) ==
    LET above == {k \in 1..Len(StoredYears) : StoredYears[k] > y}
        first == IF above = {} THEN Len(StoredYears)
                 ELSE CHOOSE k \in above : \A j \in above : k <= j
    IN  IF first < 2 THEN 2 ELSE first

\* mutant of UpperIndex: every year is interpolated over the last interval
UpperIndex_Last(y) == Len(StoredYears)

\* interp(year=y): the index of the upper bracketing year, numpy.searchsorted
\* clipped to 1..len-1 (scipy.interpolate.interp1d, kind linear), 1-based here
UpperIndex(y) ==
    LET first == CHOOSE k \in 1..Len(StoredYears) :
                     /\ StoredYears[k] >= y
                     /\ \A j \in 1..(k - 1) : StoredYears[j] < y
    IN  IF first < 2 THEN 2 ELSE first

LowerYear(y) == StoredYears[UpperIndex(y) - 1]

UpperYear(y) == StoredYears[UpperIndex(y)]

\* linear interpolation of one series between its bracketing years:
\* slope * (y - x_lo) + y_lo with slope = (y_hi - y_lo) / (x_hi - x_lo)
Interp(lo, hi, y) ==
    RatAdd(RatScale(RatSub(hi, lo), y - LowerYear(y), UpperYear(y) - LowerYear(y)), lo)

\* data_to_interp_from.interp(year=y) of get_remind_electricity_markets
InterpolatedMarkets(d, L, y) ==
    [c \in L \X Regions |->
        Interp(Normalized(d, L, LowerYear(y))[c], Normalized(d, L, UpperYear(y))[c], y)]

get_remind_electricity_markets(d, y, drop_hydrogen) ==
    LET L == list_technologies(drop_hydrogen)
    IN  IF OutOfRange(y) THEN Raise("KeyError")
        ELSE IF IsStoredYear(y) THEN Return(Normalized(d, L, y))
        ELSE Return(InterpolatedMarkets(d, L, y))

\* self.data.loc[list_technologies,:,y] / 100
Ratio(d, L, y) == [c \in L \X Regions |-> Rat(Raw(d, c[1], c[2], y), 100)]

\* data_to_interp_from.interp(year=y) / 100
InterpolatedRatio(d, L, y) ==
    [c \in L \X Regions |->
        RatScale(Interp(Rat(Raw(d, c[1], c[2], LowerYear(y)), 1),
                        Rat(Raw(d, c[1], c[2], UpperYear(y)), 1), y), 1, 100)]

get_remind_electricity_efficiencies(d, y, drop_hydrogen) ==
    LET L == list_efficiencies(drop_hydrogen)
    IN  IF OutOfRange(y) THEN Raise("KeyError")
        ELSE IF IsStoredYear(y) THEN Return(Ratio(d, L, y))
        ELSE Return(InterpolatedRatio(d, L, y))

-----------------------------------------------------------------------------
(* Bounds of the region tables and exchange lists *)

\* A region table holds at most MaxRows rows.
MaxRows == 3

\* A market dataset holds at most MaxExchanges exchanges.
MaxExchanges == 3

-----------------------------------------------------------------------------
(* The geomatcher and the REMIND regions: get_REMIND_geomatcher *)

\* the region column of regionmappingH12.csv
RemindRegions == Regions

\* the ISO column of regionmappingH12.csv
IsoCodes == {"DE", "FR", "US", "CC", "MA"}

\* countries_not_found
countries_not_found == {"CC", "CX", "GG", "JE", "BL", "MA"}

\* The faces of the locations wurst's geomatcher can define by itself: a country
\* is one face, "RER" is a group of countries.
ecoinvent_faces ==
    ("DE" :> {"DE"}) @@ ("FR" :> {"FR"}) @@ ("US" :> {"US"}) @@ ("CC" :> {"CC"})
        @@ ("MA" :> {"MA"}) @@ ("RER" :> {"DE", "FR"})

\* the locations every geomatcher of the model defines
BaseTopology == {"DE", "FR", "US", "RER"}

\* every location code a dataset may carry
Locations == DOMAIN ecoinvent_faces \cup {"GLO", "RoW", "XX", "UCTE"}

\* dbclean('').get_fix_names_dict(): the renamed location codes
get_fix_names_dict == ("UCTE" :> "RER")

\* mutant of Excluded: the exclusion list is ignored
Excluded_Never(ISO) == FALSE

\* ISO in countries_not_found
Excluded(ISO) == ISO \in countries_not_found

\* rmnd_to_iso: region -> the ISO codes of its rows that are not excluded
rmnd_to_iso(tbl) ==
    [region \in {row[2] : row \in {x \in tbl : ~Excluded(x[1])}} |->
        {row[1] : row \in {x \in tbl : x[2] = region /\ ~Excluded(x[1])}}]

\* A key of the geomatcher: <<namespace, code>>; the locations of the inventory
\* live in the default namespace, "ecoinvent".
Key(code) == <<"ecoinvent", code>>

RemindKeys(tbl) == {<<"REMIND", r>> : r \in DOMAIN rmnd_to_iso(tbl)}

\* geomatcher[key] once add_definitions(rmnd_to_iso, "REMIND") has run: the
\* faces of a location
Faces(key, tbl, topo) ==
    IF key[1] = "REMIND" THEN UNION {ecoinvent_faces[c] : c \in rmnd_to_iso(tbl)[key[2]]}
    ELSE IF key[2] = "GLO" THEN UNION {ecoinvent_faces[c] : c \in topo}
    ELSE IF key[2] = "RoW" THEN {}
    ELSE ecoinvent_faces[key[2]]

\* geomatcher._actual_key: the keys that do not raise KeyError
Defined(key, tbl, topo) ==
    \/ key[1] = "ecoinvent" /\ key[2] \in topo \cup {"GLO", "RoW"}
    \/ key \in RemindKeys(tbl)

\* [r for r in geomatcher.intersects(location) if r[0] == 'REMIND']
RemindIntersects(location, tbl, topo) ==
    {k \in RemindKeys(tbl) :
        Faces(k, tbl, topo) \cap Faces(Key(location), tbl, topo) # {}}

\* geomatcher.contained(region): the defined locations whose faces lie within it
Contained(region, tbl, topo) ==
    {k \in {Key(c) : c \in topo \cup {"GLO"}} \cup RemindKeys(tbl) :
        Faces(k, tbl, topo) \subseteq Faces(region, tbl, topo)}

\* if location == 'RoW': location = 'GLO'; then get_fix_names_dict().get(location, location)
FixLocation(location) ==
    LET loc == IF location = "RoW" THEN "GLO" ELSE location
    IN  IF loc \in DOMAIN get_fix_names_dict THEN get_fix_names_dict[loc] ELSE loc

\* ecoinvent_to_remind_location: the except branch formats remind_location, which
\* the failed assignment left unbound
ecoinvent_to_remind_location(location, tbl, topo) ==
    LET loc == FixLocation(location)
    IN  IF Defined(Key(loc), tbl, topo)
        THEN Return({r[2] : r \in RemindIntersects(loc, tbl, topo)})
        ELSE Raise("UnboundLocalError")

\* find_other_ecoinvent_regions_in_remind_region:
\* set(t[1] if isinstance(t, tuple) else t for t in temp)
find_other_ecoinvent_regions_in_remind_region(loc, tbl, topo) ==
    LET fixed == FixLocation(loc)
    IN  IF Defined(Key(fixed), tbl, topo)
        THEN Return({t[2] : t \in UNION {Contained(region, tbl, topo) :
                                            region \in RemindIntersects(fixed, tbl, topo)}})
        ELSE Raise("KeyError")

\* every table of at most n rows over the rows S
RECURSIVE Tables(_, _)
Tables(S, n) ==
    IF n = 0 \/ S = {} THEN {{}}
    ELSE LET x == CHOOSE e \in S : TRUE
         IN  Tables(S \ {x}, n) \cup {t \cup {x} : t \in Tables(S \ {x}, n - 1)}

\* The geomatchers construction can end with: every country of a REMIND
\* definition is defined (add_definitions raises KeyError otherwise); a country
\* on the exclusion list may or may not be.
Topologies == {BaseTopology \cup T : T \in SUBSET {"CC", "MA"}}

-----------------------------------------------------------------------------
(* Inventory datasets and wurst.searching *)

kWh == "kilowatt hour"

\* The names of the model's datasets and exchanges, each with the searched
\* substrings that occur in it.
Occurs ==
    ("market for electricity, high voltage" :>
        {"market for electricity, high voltage"})
    @@ ("market for electricity, high voltage, aluminium industry" :>
        {"market for electricity, high voltage", "aluminium industry"})
    @@ ("market for electricity, medium voltage" :>
        {"market for electricity, medium voltage"})
    @@ ("market for electricity, low voltage" :>
        {"market for electricity, low voltage"})
    @@ ("electricity voltage transformation from high to medium voltage" :>
        {"electricity voltage transformation"})
    @@ ("electricity production, hard coal" :> {})
    @@ ("electricity production, lignite" :> {})
    @@ ("electricity production, wind, 1-3MW turbine, onshore" :> {})
    @@ ("transmission network construction, electricity, high voltage" :> {})
    @@ ("kilowatt hour" :> {"kilowatt hour"})
    @@ ("kilometer" :> {})
    @@ ("megajoule" :> {})

\* ws.contains(field, value): value in x.get(field, '')
contains(x, field, value) == value \in Occurs[x[field]]

\* ws.equals(field, value)
equals(x, field, value) == x[field] = value

\* mutant of KeptByClear: the voltage-transformation clause is missing
KeptByClear_NoTransformation(exc) ==
    \/ ~contains(exc, "unit", kWh)
    \/ contains(exc, "name", "market for electricity, high voltage")
    \/ contains(exc, "name", "market for electricity, medium voltage")
    \/ contains(exc, "name", "market for electricity, low voltage")

\* the ws.either(...) filter of delete_electricity_inputs_from_market
KeptByClear(exc) ==
    \/ ~contains(exc, "unit", kWh)
    \/ contains(exc, "name", "market for electricity, high voltage")
    \/ contains(exc, "name", "market for electricity, medium voltage")
    \/ contains(exc, "name", "market for electricity, low voltage")
    \/ contains(exc, "name", "electricity voltage transformation")

\* delete_electricity_inputs_from_market: the new value of ds['exchanges'],
\* [exc for exc in ws.get_many(ds['exchanges'], ws.either(...))]
delete_electricity_inputs_from_market(exchanges) == SelectSeq(exchanges, KeptByClear)

\* an exchange of amount 1 supplied from location "DE"
Exchange(name, unit, type) ==
    [name |-> name, unit |-> unit, type |-> type, amount |-> Rat(1, 1), location |-> "DE"]

\* the exchanges a market dataset of the inventory may hold
ExchangeKinds ==
    {Exchange("market for electricity, high voltage", kWh, "production"),
     Exchange("market for electricity, medium voltage", kWh, "technosphere"),
     Exchange("electricity voltage transformation from high to medium voltage", kWh,
              "technosphere"),
     Exchange("electricity production, hard coal", kWh, "technosphere"),
     Exchange("electricity production, wind, 1-3MW turbine, onshore", kWh, "technosphere"),
     Exchange("transmission network construction, electricity, high voltage", "kilometer",
              "technosphere")}

\* every list of at most n elements of S
RECURSIVE Lists(_, _)
Lists(S, n) ==
    IF n = 0 THEN {<<>>}
    ELSE {<<>>} \cup {<<x>> \o t : x \in S, t \in Lists(S, n - 1)}

Dataset(name, location, unit, exchanges) ==
    [name |-> name, location |-> location, unit |-> unit, exchanges |-> exchanges]

-----------------------------------------------------------------------------
(* The supplier searches of Electricity *)

\* A RemindDataCollection defines electricity_markets and
\* rev_electricity_market_labels; Electricity reads rmd.markets and
\* rmd.rev_market_labels.  The constructor takes any object, so the model lets
\* rmd define each of the two attributes Electricity reads, or not.
RmdAttributes == {"markets", "rev_market_labels"}

\* InventorySet(db).powerplants_map: technology name -> names of its datasets
powerplant_map ==
    ("Coal PC" :> {"electricity production, hard coal", "electricity production, lignite"})
        @@ ("Wind" :> {"electricity production, wind, 1-3MW turbine, onshore"})

\* self.powerplant_map[self.rmd.rev_market_labels[tech]] raises AttributeError or
\* KeyError
NamesRaise(tech, r) ==
    \/ "rev_market_labels" \notin r.attrs
    \/ tech \notin DOMAIN Reversed(electricity_market_labels)
    \/ Reversed(electricity_market_labels)[tech] \notin DOMAIN powerplant_map

\* self.powerplant_map[self.rmd.rev_market_labels[tech]]
Names(tech) == powerplant_map[Reversed(electricity_market_labels)[tech]]

\* the positions 1..Len(seq)
Positions(seq) == [k \in 1..Len(seq) |-> k]

\* find_ecoinvent_electricity_datasets_in_same_ecoinvent_location: the positions in
\* the inventory of the datasets found.  When the first search raises, the
\* second one raises too (it evaluates the same names, and calls
\* ecoinvent_to_remind_locations, which Electricity does not define), and the
\* result is [].
find_ecoinvent_electricity_datasets_in_same_ecoinvent_location(tech, location, inv, r) ==
    IF NamesRaise(tech, r) THEN <<>>
    ELSE SelectSeq(Positions(inv),
                   LAMBDA k : /\ inv[k].name \in Names(tech)
                              /\ equals(inv[k], "location", location)
                              /\ equals(inv[k], "unit", kWh))

\* find_ecoinvent_electricity_datasets_in_remind_location
find_ecoinvent_electricity_datasets_in_remind_location(tech, location, inv, r, tbl, topo) ==
    LET others == find_other_ecoinvent_regions_in_remind_region(location, tbl, topo)
    IN  IF NamesRaise(tech, r) \/ others.exc # "none" THEN <<>>
        ELSE SelectSeq(Positions(inv),
                       LAMBDA k : /\ inv[k].name \in Names(tech)
                                  /\ inv[k].location \in others.value
                                  /\ equals(inv[k], "unit", kWh))

-----------------------------------------------------------------------------
(* update_electricity_markets *)

\* electricity_market_filter_high_voltage
electricity_market_filter_high_voltage(x) ==
    /\ contains(x, "name", "market for electricity, high voltage")
    /\ ~contains(x, "name", "aluminium industry")
    /\ ~contains(x, "name", "internal use in coal mining")

\* mutant of NextMatch: the iteration does not move past the dataset at hand
NextMatch_Again(inv, k) ==
    LET later == {m \in 1..Len(inv) : m >= k /\ electricity_market_filter_high_voltage(inv[m])}
    IN  IF later = {} THEN 0 ELSE CHOOSE m \in later : \A n \in later : m <= n

\* for ds in ws.get_many(self.db, ...): the position of the next match after k, 0 if none
NextMatch(inv, k) ==
    LET later == {m \in (k + 1)..Len(inv) : electricity_market_filter_high_voltage(inv[m])}
    IN  IF later = {} THEN 0 ELSE CHOOSE m \in later : \A n \in later : m <= n

\* mix.coords['variable'].values
MixVariables == <<"SE|Electricity|Coal", "SE|Electricity|Wind">>

\* self.rmd.markets.loc[:, remind_locations, :].mean(axis=1); the mean of an empty
\* selection is NaN
MeanOver(markets, regions) ==
    [v \in {MixVariables[k] : k \in 1..Len(MixVariables)} |->
        RatScale(RatSumOver(regions, [r \in regions |-> markets[<<v, r>>]]),
                 1, Cardinality(regions))]

\* mix.loc[i] != 0; NaN differs from 0
NonZero(q) == IsNaN(q) \/ q.num # 0

\* mutant of NeedsSibling: the sibling-region search is made whatever was found
NeedsSibling_Always(found) == TRUE

\* line 169: if len(datasets[i]) == 0
NeedsSibling(found) == Len(found) = 0

\* line 174: if len(datasets[i]) == 0
NeedsGlobal(found) == Len(found) = 0

\* the record of one search: the market, the technology, the tier, what it
\* returned, and the regions the market was resolved to
Searched(tier, found) ==
    [ds |-> ds, tech |-> MixVariables[i], tier |-> tier, found |-> found,
     regions |-> remind_locations]

\* for ds in ws.get_many(self.db, *electricity_market_filter_high_voltage)
NextDataset ==
    /\ pc = "loop"
    /\ ds' = NextMatch(db, ds)
    /\ pc' = IF NextMatch(db, ds) = 0 THEN "done" ELSE "delete"
    /\ UNCHANGED <<dataVars, geoVars, visited, call, ret, db, rmd, remind_locations, mix, i,
                   datasets, calls>>

\* self.delete_electricity_inputs_from_market(ds)
Delete ==
    /\ pc = "delete"
    /\ db' = [db EXCEPT ![ds].exchanges = delete_electricity_inputs_from_market(@)]
    /\ visited' = Append(visited, ds)
    /\ pc' = "resolve"
    /\ UNCHANGED <<dataVars, geoVars, call, ret, rmd, ds, remind_locations, mix, i,
                   datasets, calls>>

\* line 153: remind_locations = self.ecoinvent_to_remind_location(ds['location'])
ResolveRegion ==
    /\ pc = "resolve"
    /\ LET out == ecoinvent_to_remind_location(db[ds].location, l, topology)
       IN  IF out.exc = "none"
           THEN /\ remind_locations' = out.value
                /\ datasets' = <<>>
                /\ pc' = "mix"
                /\ ret' = ret
           ELSE /\ ret' = out
                /\ pc' = "raised"
                /\ UNCHANGED <<remind_locations, datasets>>
    /\ UNCHANGED <<dataVars, geoVars, visited, call, db, rmd, ds, mix, i, calls>>

\* line 156: mix = self.rmd.markets.loc[:,remind_locations,:].mean(axis=1)
FetchMix ==
    /\ pc = "mix"
    /\ IF "markets" \in rmd.attrs
       THEN /\ mix' = MeanOver(rmd.markets, remind_locations)
            /\ i' = 1
            /\ pc' = "tech"
            /\ ret' = ret
       ELSE /\ ret' = Raise("AttributeError")
            /\ pc' = "raised"
            /\ UNCHANGED <<mix, i>>
    /\ UNCHANGED <<dataVars, geoVars, visited, call, db, rmd, ds, remind_locations, datasets, calls>>

\* lines 160-161: for i in mix.coords['variable'].values: if mix.loc[i] != 0;
\* after the last variable the function returns: the code that appended the new
\* exchanges (lines 191-211) is commented out
NextTechnology ==
    /\ pc = "tech"
    /\ IF i > Len(MixVariables)
       THEN pc' = "loop" /\ i' = i
       ELSE IF NonZero(mix[MixVariables[i]])
            THEN pc' = "exact" /\ i' = i
            ELSE pc' = "tech" /\ i' = i + 1
    /\ UNCHANGED <<dataVars, geoVars, visited, call, ret, db, rmd, ds, remind_locations, mix,
                   datasets, calls>>

\* line 164, then the test of line 169
SearchExact ==
    /\ pc = "exact"
    /\ LET found == find_ecoinvent_electricity_datasets_in_same_ecoinvent_location(
                        MixVariables[i], db[ds].location, db, rmd)
       IN  /\ datasets' = (MixVariables[i] :> found) @@ datasets
           /\ calls' = Append(calls, Searched("exact", found))
           /\ pc' = IF NeedsSibling(found) THEN "sibling"
                    ELSE IF NeedsGlobal(found) THEN "global" ELSE "report"
    /\ UNCHANGED <<dataVars, geoVars, visited, call, ret, db, rmd, ds, remind_locations, mix, i>>

\* line 170, then the test of line 174
SearchSibling ==
    /\ pc = "sibling"
    /\ LET found == find_ecoinvent_electricity_datasets_in_remind_location(
                        MixVariables[i], db[ds].location, db, rmd, l, topology)
       IN  /\ datasets' = (MixVariables[i] :> found) @@ datasets
           /\ calls' = Append(calls, Searched("sibling", found))
           /\ pc' = IF NeedsGlobal(found) THEN "global" ELSE "report"
    /\ UNCHANGED <<dataVars, geoVars, visited, call, ret, db, rmd, ds, remind_locations, mix, i>>

\* line 175
SearchGlobal ==
    /\ pc = "global"
    /\ LET found == find_ecoinvent_electricity_datasets_in_same_ecoinvent_location(
                        MixVariables[i], "GLO", db, rmd)
       IN  /\ datasets' = (MixVariables[i] :> found) @@ datasets
           /\ calls' = Append(calls, Searched("global", found))
           /\ pc' = "report"
    /\ UNCHANGED <<dataVars, geoVars, visited, call, ret, db, rmd, ds, remind_locations, mix, i>>

\* line 189: print(i, [...]); the list printed is always empty
Report ==
    /\ pc = "report"
    /\ i' = i + 1
    /\ pc' = "tech"
    /\ UNCHANGED <<dataVars, geoVars, visited, call, ret, db, rmd, ds, remind_locations, mix,
                   datasets, calls>>

-----------------------------------------------------------------------------
(* SpecData: the queries applied to every bounded store and year *)

NoCall == [fn |-> "none"]

\* the parts of the state a specification does not use
NoStore == data = <<>> /\ year = 0

NoGeo == l = {} /\ topology = {}

NoInventory == db = <<>>

NoRun ==
    /\ rmd = [attrs |-> {}, markets |-> <<>>]
    /\ pc = "idle" /\ ds = 0 /\ remind_locations = {} /\ mix = <<>> /\ i = 0
    /\ datasets = <<>> /\ calls = <<>> /\ visited = <<>>

InitData ==
    /\ data \in BoundedStores
    /\ year \in RequestYears
    /\ call = NoCall
    /\ ret = Return(<<>>)
    /\ NoGeo /\ NoInventory /\ NoRun

CallMarkets ==
    \E h \in BOOLEAN :
        /\ call = NoCall
        /\ call' = [fn |-> "get_remind_electricity_markets", drop_hydrogen |-> h]
        /\ ret' = get_remind_electricity_markets(data, year, h)
        /\ UNCHANGED <<dataVars, geoVars, db, runVars>>

CallEfficiencies ==
    \E h \in BOOLEAN :
        /\ call = NoCall
        /\ call' = [fn |-> "get_remind_electricity_efficiencies", drop_hydrogen |-> h]
        /\ ret' = get_remind_electricity_efficiencies(data, year, h)
        /\ UNCHANGED <<dataVars, geoVars, db, runVars>>

NextData == CallMarkets \/ CallEfficiencies

SpecData == InitData /\ [][NextData]_vars

-----------------------------------------------------------------------------
(* SpecGeo: the region lookups applied to every bounded table and location *)

InitGeo ==
    /\ l \in Tables(IsoCodes \X RemindRegions, MaxRows)
    /\ topology \in Topologies
    /\ call = NoCall
    /\ ret = Return(<<>>)
    /\ NoStore /\ NoInventory /\ NoRun

CallRemindLocation ==
    \E location \in Locations :
        /\ call = NoCall
        /\ call' = [fn |-> "ecoinvent_to_remind_location", location |-> location]
        /\ ret' = ecoinvent_to_remind_location(location, l, topology)
        /\ UNCHANGED <<dataVars, geoVars, db, runVars>>

CallOtherRegions ==
    \E location \in Locations :
        /\ call = NoCall
        /\ call' = [fn |-> "find_other_ecoinvent_regions_in_remind_region",
                    location |-> location]
        /\ ret' = find_other_ecoinvent_regions_in_remind_region(location, l, topology)
        /\ UNCHANGED <<dataVars, geoVars, db, runVars>>

NextGeo == CallRemindLocation \/ CallOtherRegions

SpecGeo == InitGeo /\ [][NextGeo]_vars

-----------------------------------------------------------------------------
(* SpecClear: the Clear step applied to every bounded exchange list *)

InitClear ==
    /\ db \in {<<Dataset("market for electricity, high voltage", "DE", kWh, x)>> :
                  x \in Lists(ExchangeKinds, MaxExchanges)}
    /\ call = NoCall
    /\ ret = Return(<<>>)
    /\ NoStore /\ NoGeo /\ NoRun

\* delete_electricity_inputs_from_market(ds): ds['exchanges'] is replaced; ret
\* keeps the list as it was before the call
CallClear ==
    /\ call = NoCall
    /\ call' = [fn |-> "delete_electricity_inputs_from_market", ds |-> 1]
    /\ ret' = Return(db[1].exchanges)
    /\ db' = [db EXCEPT ![1].exchanges = delete_electricity_inputs_from_market(@)]
    /\ UNCHANGED <<dataVars, geoVars, runVars>>

NextClear == CallClear

SpecClear == InitClear /\ [][NextClear]_vars

-----------------------------------------------------------------------------
(* Spec: one run of update_electricity_markets over every bounded inventory *)

\* At most MaxSuppliers power-plant datasets are in the inventory.
MaxSuppliers == 2

\* the power-plant datasets an inventory may hold
SupplierUniverse ==
    <<Dataset("electricity production, hard coal", "DE", kWh, <<>>),
      Dataset("electricity production, lignite", "DE", kWh, <<>>),
      Dataset("electricity production, hard coal", "FR", kWh, <<>>),
      Dataset("electricity production, hard coal", "GLO", kWh, <<>>),
      Dataset("electricity production, wind, 1-3MW turbine, onshore", "FR", kWh, <<>>),
      Dataset("electricity production, hard coal", "DE", "megajoule", <<>>)>>

\* the exchanges of a market dataset before the run
MarketExchanges ==
    <<Exchange("market for electricity, high voltage", kWh, "production"),
      Exchange("electricity production, hard coal", kWh, "technosphere"),
      Exchange("electricity voltage transformation from high to medium voltage", kWh,
               "technosphere"),
      Exchange("transmission network construction, electricity, high voltage", "kilometer",
               "technosphere")>>

\* the locations of the two high-voltage markets of an inventory
MarketLocations == {"DE", "US", "MA", "RoW", "XX"}

\* An inventory: a high-voltage market, a market the filter rejects, a second
\* high-voltage market, then the power plants.
Inventories ==
    {<<Dataset("market for electricity, high voltage", loc[1], kWh, MarketExchanges),
       Dataset("market for electricity, high voltage, aluminium industry", "DE", kWh,
               MarketExchanges),
       Dataset("market for electricity, high voltage", loc[2], kWh, MarketExchanges)>>
     \o SelectSeq(SupplierUniverse, LAMBDA x : x \in S) :
        loc \in MarketLocations \X MarketLocations,
        S \in {T \in SUBSET {SupplierUniverse[k] : k \in 1..Len(SupplierUniverse)} :
                  Cardinality(T) <= MaxSuppliers}}

\* the shares rmd.markets may hold, per (variable, region)
MarketShares ==
    {(<<"SE|Electricity|Coal", "EUR">> :> Rat(3, 10)) @@ (<<"SE|Electricity|Wind", "EUR">> :> Rat(7, 10))
        @@ (<<"SE|Electricity|Coal", "USA">> :> Rat(10, 10)) @@ (<<"SE|Electricity|Wind", "USA">> :> Rat(0, 10)),
     (<<"SE|Electricity|Coal", "EUR">> :> Rat(0, 10)) @@ (<<"SE|Electricity|Wind", "EUR">> :> Rat(10, 10))
        @@ (<<"SE|Electricity|Coal", "USA">> :> Rat(5, 10)) @@ (<<"SE|Electricity|Wind", "USA">> :> Rat(5, 10))}

\* regionmappingH12.csv of the run
RegionMapping ==
    {<<"DE", "EUR">>, <<"FR", "EUR">>, <<"US", "USA">>, <<"MA", "EUR">>, <<"CC", "USA">>}

Init ==
    /\ db \in Inventories
    /\ rmd \in [attrs : SUBSET RmdAttributes, markets : MarketShares]
    /\ l = RegionMapping
    /\ topology = BaseTopology \cup {"MA"}
    /\ call = [fn |-> "update_electricity_markets"]
    /\ ret = Return(<<>>)
    /\ pc = "loop" /\ ds = 0 /\ remind_locations = {} /\ mix = <<>> /\ i = 0
    /\ datasets = <<>> /\ calls = <<>> /\ visited = <<>>
    /\ NoStore

Next ==
    \/ NextDataset
    \/ Delete
    \/ ResolveRegion
    \/ FetchMix
    \/ NextTechnology
    \/ SearchExact
    \/ SearchSibling
    \/ SearchGlobal
    \/ Report

Spec == Init /\ [][Next]_vars

-----------------------------------------------------------------------------
(* SpecSearch: the exact-location search applied to every bounded inventory *)

\* rmd is a RemindDataCollection when it defines neither of the two names
\* Electricity reads.
InitSearch ==
    /\ db \in Inventories
    /\ rmd \in [attrs : SUBSET RmdAttributes, markets : MarketShares]
    /\ call = NoCall
    /\ ret = Return(<<>>)
    /\ pc = "idle" /\ ds = 0 /\ remind_locations = {} /\ mix = <<>> /\ i = 0
    /\ datasets = <<>> /\ calls = <<>> /\ visited = <<>>
    /\ NoStore /\ NoGeo

CallSameLocation ==
    \E tech \in Values(electricity_market_labels), location \in Locations :
        /\ call = NoCall
        /\ call' = [fn |-> "find_ecoinvent_electricity_datasets_in_same_ecoinvent_location",
                    tech |-> tech, location |-> location]
        /\ ret' = Return(find_ecoinvent_electricity_datasets_in_same_ecoinvent_location(
                             tech, location, db, rmd))
        /\ UNCHANGED <<dataVars, geoVars, db, runVars>>

NextSearch == CallSameLocation

SpecSearch == InitSearch /\ [][NextSearch]_vars

-----------------------------------------------------------------------------
(* Properties of the data store, checked under SpecData *)

MarketsReturned ==
    call.fn = "get_remind_electricity_markets" /\ ret.exc = "none"

NonHydrogen == {lab \in Values(electricity_market_labels) : ~ContainsHydrogen(lab)}

\* the stored years next to y
YearBefore(y) == CHOOSE s \in YearSet : s < y /\ \A u \in YearSet : u < y => u <= s

YearAfter(y) == CHOOSE s \in YearSet : s > y /\ \A u \in YearSet : u > y => s <= u

Between(y) ==
    /\ y \notin YearSet
    /\ \E s \in YearSet : s < y
    /\ \E u \in YearSet : u > y

\* the stored years a result for y is computed from
UsedYears(y) == IF y \in YearSet THEN {y} ELSE {YearBefore(y), YearAfter(y)}

\* the raw total of the technologies L of region r at stored year s
Total(L, r, s) == SumOver(L, [t \in L |-> Raw(data, t, r, s)])

\* the sum of the returned shares of region r over the technologies L
ShareSum(L, r) == RatSumOver(L, [t \in L |-> ret.value[<<t, r>>]])

IsOne(q) == q.den # 0 /\ q.num = q.den

\* (Y2 - Y1) times the raw value of (t, r) linearly interpolated at y
InterpolatedRaw(t, r, y) ==
    Raw(data, t, r, YearBefore(y)) * (YearAfter(y) - y)
        + Raw(data, t, r, YearAfter(y)) * (y - YearBefore(y))

\* C1 as stated: for every year in range and every region, the shares returned
\* with hydrogen dropped sum to 1 when some non-hydrogen technology has nonzero
\* raw generation in the region at that year (its stored value, or between two
\* stored years its interpolated raw value).
C1_SumToOne_AsStated ==
    (MarketsReturned /\ call.drop_hydrogen) =>
        \A r \in Regions :
            (\E t \in NonHydrogen :
                IF year \in YearSet THEN Raw(data, t, r, year) # 0
                ELSE InterpolatedRaw(t, r, year) # 0)
            => IsOne(ShareSum(NonHydrogen, r))

\* C1 amended: for every year in range and every region, the shares returned with
\* hydrogen dropped sum to 1 when the non-hydrogen raw generation of the region
\* is nonzero at every stored year the result is computed from (the year
\* itself, or both bracketing stored years).
C1_SumToOne ==
    (MarketsReturned /\ call.drop_hydrogen) =>
        \A r \in Regions :
            (\A s \in UsedYears(year) : \E t \in NonHydrogen : Raw(data, t, r, s) # 0)
            => IsOne(ShareSum(NonHydrogen, r))

\* C1 witness: an interpolated year whose two bracketing years both carry
\* non-hydrogen generation in a region where hydrogen is generated too, and the
\* returned shares of that region sum to 1.
C1_Witness ==
    /\ MarketsReturned /\ call.drop_hydrogen /\ Between(year)
    /\ \E r \in Regions :
          /\ \A s \in UsedYears(year) : \E t \in NonHydrogen : Raw(data, t, r, s) # 0
          /\ \E s \in UsedYears(year) : Raw(data, "SE|Electricity|Hydrogen", r, s) # 0
          /\ IsOne(ShareSum(NonHydrogen, r))

\* C2 as stated: between two adjacent stored years Y1 < Y < Y2 the returned share
\* of (region, technology) is w / (sum of w over the selected technologies),
\* w being the raw value interpolated linearly between Y1 and Y2.
C2_InterpolateThenNormalize_AsStated ==
    (MarketsReturned /\ Between(year)) =>
        LET L == list_technologies(call.drop_hydrogen)
        IN  \A r \in Regions :
                (Total(L, r, YearBefore(year)) # 0 /\ Total(L, r, YearAfter(year)) # 0)
                => \A t \in L :
                       RatEq(ret.value[<<t, r>>],
                             Rat(InterpolatedRaw(t, r, year),
                                 SumOver(L, [u \in L |-> InterpolatedRaw(u, r, year)])))

\* C2 amended: between two adjacent stored years Y1 < Y < Y2 the returned share of
\* (region, technology) is s1 + (s2 - s1) * (Y - Y1) / (Y2 - Y1), where s1 = v1 / S1
\* and s2 = v2 / S2 are the shares normalized at Y1 and at Y2 (S1, S2 the region's
\* totals over the selected technologies, both nonzero): normalization comes
\* first, interpolation second.  Stated as the weighted mean
\* ((Y2 - Y) * s1 + (Y - Y1) * s2) / (Y2 - Y1).
C2_NormalizeThenInterpolate ==
    (MarketsReturned /\ Between(year)) =>
        LET L == list_technologies(call.drop_hydrogen)
            Y1 == YearBefore(year)
            Y2 == YearAfter(year)
        IN  \A r \in Regions :
                LET S1 == Total(L, r, Y1)
                    S2 == Total(L, r, Y2)
                IN  (S1 # 0 /\ S2 # 0)
                    => \A t \in L :
                           RatEq(ret.value[<<t, r>>],
                                 Rat(Raw(data, t, r, Y1) * S2 * (Y2 - year)
                                         + Raw(data, t, r, Y2) * S1 * (year - Y1),
                                     S1 * S2 * (Y2 - Y1)))

\* C2 witness: an interpolated year in the first interval, in a region whose mix
\* differs between the two bracketing years.
C2_Witness ==
    /\ MarketsReturned /\ Between(year) /\ year < StoredYears[2]
    /\ \E r \in Regions :
          LET L  == list_technologies(call.drop_hydrogen)
              S1 == Total(L, r, YearBefore(year))
              S2 == Total(L, r, YearAfter(year))
          IN  /\ S1 # 0 /\ S2 # 0
              /\ \E t \in L : Raw(data, t, r, YearBefore(year)) * S2
                                 # Raw(data, t, r, YearAfter(year)) * S1

\* C3: technology_mix and efficiency raise the out-of-range error (KeyError), and
\* return nothing, exactly when the year lies below every stored year or above
\* every stored year.
C3_OutOfRange ==
    (call.fn # "none") =>
        /\ (ret.exc = "KeyError")
               <=> ((\A s \in YearSet : year < s) \/ (\A s \in YearSet : year > s))
        /\ ret.exc \in {"none", "KeyError"}
        /\ (ret.exc = "KeyError") => ret.value = <<>>
        /\ (ret.exc = "none") => ret.value # <<>>

\* C3 witness: both queries have been seen to raise, here efficiency above the range
C3_Witness ==
    /\ call.fn = "get_remind_electricity_efficiencies"
    /\ ret.exc = "KeyError"
    /\ year > YearMax

-----------------------------------------------------------------------------
(* Properties of the Clear step, checked under SpecClear *)

\* the substrings that mark a self-consumption or voltage-transformation exchange
StructuralPatterns ==
    {"market for electricity, high voltage", "market for electricity, medium voltage",
     "market for electricity, low voltage", "electricity voltage transformation"}

\* a kilowatt-hour exchange that is neither self-consumption nor voltage transformation
ElectricitySupply(exc) ==
    exc.unit = kWh /\ Occurs[exc.name] \cap StructuralPatterns = {}

\* the positions of the list old that hold no electricity-supply exchange
Surviving(old) == {k \in 1..Len(old) : ~ElectricitySupply(old[k])}

\* the j-th smallest element of the set S of numbers
Nth(S, j) == CHOOSE k \in S : Cardinality({m \in S : m <= k}) = j

Cleared == call.fn = "delete_electricity_inputs_from_market"

\* C6: the Clear step removes every kilowatt-hour exchange that is neither a
\* self-consumption nor a voltage-transformation exchange, and keeps every other
\* exchange, unchanged and in its original relative order.
C6_ClearKeepsStructural ==
    Cleared =>
        LET old == ret.value
            new == db[call.ds].exchanges
        IN  /\ Len(new) = Cardinality(Surviving(old))
            /\ \A j \in 1..Len(new) : new[j] = old[Nth(Surviving(old), j)]

\* C6 witness: a list with a supply exchange between a voltage-transformation
\* exchange and an exchange of another unit; the two outer ones survive in order.
C6_Witness ==
    /\ Cleared
    /\ Len(ret.value) = 3
    /\ "electricity voltage transformation" \in Occurs[ret.value[1].name]
    /\ ElectricitySupply(ret.value[2])
    /\ ret.value[3].unit # kWh
    /\ db[call.ds].exchanges = <<ret.value[1], ret.value[3]>>

-----------------------------------------------------------------------------
(* Properties of the region lookups, checked under SpecGeo *)

Looked == call.fn = "ecoinvent_to_remind_location"

\* C7 as stated: containing_region (ecoinvent_to_remind_location) never raises;
\* for a location code the geomatcher does not know it returns an empty result.
C7_NeverRaises ==
    Looked =>
        /\ ret.exc = "none"
        /\ (FixLocation(call.location) \notin topology \cup {"GLO"}) => ret.value = {}

\* C8 as stated: for every row (fine code, macro-region) of the table whose fine
\* code is not on the exclusion list, containing_region(fine code) returns that
\* macro-region; for every fine code on the exclusion list it returns empty.
C8_InverseOfTable ==
    Looked =>
        /\ \A row \in l :
               (row[1] = call.location /\ row[1] \notin countries_not_found)
               => (ret.exc = "none" /\ row[2] \in ret.value)
        /\ call.location \in countries_not_found
               => (ret.exc = "none" /\ ret.value = {})

\* The part of C8 the code satisfies: the rows that are not excluded are inverted,
\* and an excluded code that the geomatcher defines yields the empty result.
C8_InverseWhereDefined ==
    Looked =>
        /\ \A row \in l :
               (row[1] = call.location /\ row[1] \notin countries_not_found)
               => (ret.exc = "none" /\ row[2] \in ret.value)
        /\ (call.location \in countries_not_found /\ call.location \in topology)
               => (ret.exc = "none" /\ ret.value = {})

-----------------------------------------------------------------------------
(* Properties of the market reconstruction, checked under Spec *)

\* the searches made so far for market m and technology t, in order
SearchesOf(m, t) == SelectSeq(calls, LAMBDA c : c.ds = m /\ c.tech = t)

\* the first non-empty result of a sequence of searches, [] if there is none
FirstNonEmpty(searches) ==
    LET hits == {k \in 1..Len(searches) : Len(searches[k].found) > 0}
    IN  IF hits = {} THEN <<>>
        ELSE searches[CHOOSE k \in hits : \A m \in hits : k <= m].found

\* the tiers of a sequence of searches
Tiers(searches) == [k \in 1..Len(searches) |-> searches[k].tier]

\* C4: the tiers are tried in the order exact-location, sibling-region, global;
\* the sibling-region search is made only if the exact-location search returned
\* nothing, the global search only if both earlier tiers returned nothing, and
\* the first non-empty result is the one kept.
C4_TierOrder ==
    /\ \A m \in 1..Len(db) : \A t \in {MixVariables[k] : k \in 1..Len(MixVariables)} :
          LET searches == SearchesOf(m, t)
          IN  /\ Tiers(searches) \in {<<>>, <<"exact">>, <<"exact", "sibling">>,
                                      <<"exact", "sibling", "global">>}
              /\ \A k \in 1..(Len(searches) - 1) : Len(searches[k].found) = 0
    /\ pc = "report" =>
          /\ datasets[MixVariables[i]] = FirstNonEmpty(SearchesOf(ds, MixVariables[i]))
          /\ Len(SearchesOf(ds, MixVariables[i])) < 3 =>
                 Len(datasets[MixVariables[i]]) > 0

\* C4 witness: an exact-location search that returned records was the only search
\* of its technology, in a run where an earlier technology went down to the
\* global tier.
C4_Witness ==
    /\ pc = "report"
    /\ Tiers(SearchesOf(ds, MixVariables[i])) = <<"exact">>
    /\ Len(datasets[MixVariables[i]]) > 0
    /\ \E k \in 1..Len(calls) : calls[k].tier = "global"

\* add_new_datasets_to_electricity_market has returned for market ds
Reconstructed == pc = "loop" /\ ds > 0

\* the technosphere exchanges of market m that name the supplier at position k of
\* the inventory with the amount q
NewExchanges(m, k, q) ==
    {e \in 1..Len(db[m].exchanges) :
        /\ db[m].exchanges[e].type = "technosphere"
        /\ db[m].exchanges[e].name = db[k].name
        /\ db[m].exchanges[e].location = db[k].location
        /\ RatEq(db[m].exchanges[e].amount, q)}

\* C5 as stated: after a market has been reconstructed, for every technology
\* whose search resolved to n >= 1 suppliers the market holds exactly one new
\* technosphere exchange per supplier, each with amount share / n.
C5_ExchangePerSupplier ==
    Reconstructed =>
        \A t \in DOMAIN datasets : \A k \in 1..Len(datasets[t]) :
            Cardinality(NewExchanges(ds, datasets[t][k],
                                     RatScale(mix[t], 1, Len(datasets[t])))) = 1

\* C9 as stated: a market whose location resolves to no macro-region is skipped;
\* no supplier search of any tier is made for it.
C9_UnresolvedMarketSkipped ==
    \A k \in 1..Len(calls) : calls[k].regions # {}

\* C10 as stated: once all three tiers have returned nothing for a technology,
\* the run still processes every remaining market and ends without raising.
C10_UnresolvedTechnologyNotFatal ==
    (\E k \in 1..Len(calls) : calls[k].tier = "global" /\ Len(calls[k].found) = 0)
        => pc # "raised"

\* The part of C10 the loop over the technologies satisfies: the step after a
\* global search that returned nothing is the report of that technology, and the
\* technologies after it are still examined.
C10_NextTechnologyExamined ==
    [][(pc = "global" /\ Len(find_ecoinvent_electricity_datasets_in_same_ecoinvent_location(
                                MixVariables[i], "GLO", db, rmd)) = 0)
          => (pc' = "report" /\ i' = i)]_vars

-----------------------------------------------------------------------------
(* Frame of update_electricity_markets, checked under Spec *)

\* the elements of a sequence
Range(seq) == {seq[k] : k \in 1..Len(seq)}

\* C11: during one run each selected high-voltage market is cleared and
\* reconstructed at most once, and the run changes nothing but the exchange lists
\* of those markets: the supplier searches modify no record of the inventory, and
\* a dataset that is not a selected market is left as it was.
C11_OnlyMarketExchangesChange ==
    [][/\ Len(db') = Len(db)
       /\ \A k \in 1..Len(db) :
             db'[k] # db[k] =>
                 /\ electricity_market_filter_high_voltage(db[k])
                 /\ k \notin Range(visited)
                 /\ db'[k] = [db[k] EXCEPT !.exchanges = db'[k].exchanges]
       /\ visited' # visited =>
             \E k \in 1..Len(db) :
                 /\ visited' = Append(visited, k)
                 /\ k \notin Range(visited)
                 /\ electricity_market_filter_high_voltage(db[k])
       /\ pc \in {"exact", "sibling", "global"} => db' = db
       /\ UNCHANGED <<rmd, l, topology>>]_vars

\* C11 witness: the run is over, both high-voltage markets have been cleared and
\* searched with a supplier found, the market of the aluminium industry between
\* them still holds its exchanges, and no power plant has got an exchange.
C11_Witness ==
    /\ pc = "done"
    /\ visited = <<1, 3>>
    /\ Len(db[1].exchanges) < Len(MarketExchanges)
    /\ Len(db[3].exchanges) < Len(MarketExchanges)
    /\ db[2].exchanges = MarketExchanges
    /\ Len(db) > 3
    /\ \A k \in 4..Len(db) : db[k].exchanges = <<>>
    /\ \E k \in 1..Len(calls) : Len(calls[k].found) > 0

-----------------------------------------------------------------------------
(* The two branches of get_remind_electricity_markets at a stored year,
   checked under SpecData *)

\* the stored year the interpolation pairs with the stored year y: the one before
\* it, and for the first stored year the one after it
PairedYear(y) == IF y = YearMin THEN YearAfter(y) ELSE YearBefore(y)

\* the same share, or both undefined
SameShare(p, q) == (IsNaN(p) /\ IsNaN(q)) \/ RatEq(p, q)

ExactReturned == MarketsReturned /\ year \in YearSet

\* C12 as stated: at every stored year Y the mix of the exact-year branch equals,
\* for every (region, technology), what the interpolation branch yields at Y.
C12_KnotEqualsExact_AsStated ==
    ExactReturned =>
        LET L == list_technologies(call.drop_hydrogen)
        IN  \A c \in L \X Regions :
                SameShare(ret.value[c], InterpolatedMarkets(data, L, year)[c])

\* C12 amended: at a stored year Y the mix of the exact-year branch equals, for
\* every technology of a region, what the interpolation branch yields at Y,
\* provided the region's total over the selected technologies is nonzero at Y
\* and at the stored year the interpolation pairs Y with.
C12_KnotEqualsExact ==
    ExactReturned =>
        LET L == list_technologies(call.drop_hydrogen)
        IN  \A r \in Regions :
                (Total(L, r, year) # 0 /\ Total(L, r, PairedYear(year)) # 0)
                => \A t \in L :
                       RatEq(ret.value[<<t, r>>],
                             InterpolatedMarkets(data, L, year)[<<t, r>>])

\* C12 witness: a stored year after the first one, in a region whose mix at that
\* year differs from its mix at the stored year before, both with generation.
C12_Witness ==
    /\ ExactReturned /\ year > YearMin
    /\ \E r \in Regions :
          LET L  == list_technologies(call.drop_hydrogen)
              S1 == Total(L, r, PairedYear(year))
              S2 == Total(L, r, year)
          IN  /\ S1 # 0 /\ S2 # 0
              /\ \E t \in L : Raw(data, t, r, PairedYear(year)) * S2
                                 # Raw(data, t, r, year) * S1
              /\ \A t \in L : RatEq(ret.value[<<t, r>>],
                                    InterpolatedMarkets(data, L, year)[<<t, r>>])

-----------------------------------------------------------------------------
(* Properties of the exact-location search, checked under SpecSearch *)

SameLocationSearched ==
    call.fn = "find_ecoinvent_electricity_datasets_in_same_ecoinvent_location"

\* the inventory names known for a technology
KnownNames(tech) ==
    IF /\ tech \in DOMAIN Reversed(electricity_market_labels)
       /\ Reversed(electricity_market_labels)[tech] \in DOMAIN powerplant_map
    THEN powerplant_map[Reversed(electricity_market_labels)[tech]]
    ELSE {}

\* the positions of the records of the inventory with a known name of the
\* technology, the given location and the unit kilowatt hour
MatchingRecords(tech, location) ==
    SelectSeq(Positions(db),
              LAMBDA k : /\ db[k].name \in KnownNames(tech)
                         /\ db[k].location = location
                         /\ db[k].unit = kWh)

\* C13 as stated: the exact-location tier returns exactly the records whose name
\* is a known name of the technology, whose location is the given code and whose
\* unit is kilowatt hour; it returns some record whenever there is one.
C13_ExactTierReturnsMatches ==
    SameLocationSearched =>
        /\ ret.value = MatchingRecords(call.tech, call.location)
        /\ MatchingRecords(call.tech, call.location) # <<>> => ret.value # <<>>

\* The part of C13 the code satisfies: an rmd that defines rev_market_labels gets
\* exactly the matching records.
C13_WhereLabelsAreDefined ==
    (SameLocationSearched /\ "rev_market_labels" \in rmd.attrs) =>
        ret.value = MatchingRecords(call.tech, call.location)

====
